---- MODULE Spec2Model ----
(***************************************************************************)
(* Model of the "Prawda w sieci" verifier.                                 *)
(*                                                                         *)
(*  - script.js: parseUrl, the allow-list loader, checkUrl with its await  *)
(*    points, and renderResult (specification Spec; SpecParse applies the  *)
(*    pure URL functions to a product of input fragments).                 *)
(*  - the session engine of backend.py, which is not among the sources and *)
(*    is modelled from spec.md section 4.5 (specification SpecSession).    *)
(*                                                                         *)
(* JavaScript strings are TLA+ strings.  In a field that holds a string or *)
(* a boolean, JavaScript null is the value null below, so a tri-state      *)
(* field (true / false / null) holds one of "true", "false", null.  A      *)
(* variable that holds an object or null holds a record or NullObject.     *)
(***************************************************************************)
EXTENDS Integers, Sequences, FiniteSets, TLC

VARIABLES
    trustedDomains,       \* script.js:6   null or the Set of domains
    trustedLoaded,        \* script.js:7
    trustedLoadingError,  \* script.js:8   null or the message of the caught error
    call,                 \* per invocation of a handler: position and locals of checkUrl
    resultsDiv,           \* what the #results element shows
    requests,             \* per invocation: the requests it has issued
    latest,               \* the invocation that began last, NoCall before the first
    qrScanner,            \* script.js:242  NoScanner (null) or the Html5Qrcode instance
    qrScanning,           \* script.js:243
    qrSectionHidden,      \* whether #qr-section carries the class "hidden"
    html5Qrcode,          \* whether window.Html5Qrcode is defined
    scanner,              \* per Html5Qrcode instance: its state inside the library
    doomedStops,          \* stop() promises that are going to reject, still pending
    sessions,             \* session engine: token -> session record
    now,                  \* session engine: the clock, in seconds
    confirmer,            \* session engine: the in-flight confirmSession calls
    lastStatus,           \* session engine: the reply of a getSessionStatus that just returned
    pin, pstage, pout     \* SpecParse: input, stage and value of the pure run

null == "null"
NullObject == [null |-> TRUE]
JsTrue == "true"
JsFalse == "false"

-----------------------------------------------------------------------------
(* String primitives of the JavaScript runtime.                            *)

Ch(s, i) == SubSeq(s, i, i)
Rest(s) == SubSeq(s, 2, Len(s))
From(s, i) == SubSeq(s, i, Len(s))

UpperAlpha == "ABCDEFGHIJKLMNOPQRSTUVWXYZ"
LowerAlpha == "abcdefghijklmnopqrstuvwxyz"
DecDigits == "0123456789"
HexDigits == "0123456789abcdef"

\* position of the one-character string c in s, a string without repeated
\* characters; 0 when absent
IndexIn(c, s) ==
    IF \E i \in 1..Len(s) : Ch(s, i) = c
    THEN CHOOSE i \in 1..Len(s) : Ch(s, i) = c
    ELSE 0

\* first position >= 1 of s holding a character of the string set, Len(s)+1 when none
FirstOf(s, set) ==
    IF \E i \in 1..Len(s) : IndexIn(Ch(s, i), set) # 0
    THEN CHOOSE i \in 1..Len(s) :
            /\ IndexIn(Ch(s, i), set) # 0
            /\ \A j \in 1..(i - 1) : IndexIn(Ch(s, j), set) = 0
    ELSE Len(s) + 1

UpperToLower ==
    [c \in {Ch(UpperAlpha, i) : i \in 1..Len(UpperAlpha)} |->
        Ch(LowerAlpha, IndexIn(c, UpperAlpha))]
LowerChar(c) == IF c \in DOMAIN UpperToLower THEN UpperToLower[c] ELSE c

RECURSIVE toLowerCase(_)
toLowerCase(s) ==
    IF s = "" THEN "" ELSE LowerChar(Ch(s, 1)) \o toLowerCase(Rest(s))

startsWith(s, p) == Len(s) >= Len(p) /\ SubSeq(s, 1, Len(p)) = p
endsWith(s, p) == Len(s) >= Len(p) /\ SubSeq(s, Len(s) - Len(p) + 1, Len(s)) = p

\* String.prototype.trim over the whitespace of the input alphabet (the space)
RECURSIVE TrimStart(_)
TrimStart(s) == IF s # "" /\ Ch(s, 1) = " " THEN TrimStart(Rest(s)) ELSE s
RECURSIVE TrimEnd(_)
TrimEnd(s) ==
    IF s # "" /\ Ch(s, Len(s)) = " " THEN TrimEnd(SubSeq(s, 1, Len(s) - 1)) ELSE s
trim(s) == TrimEnd(TrimStart(s))

\* s split on the one-character separator sep, as a sequence of strings
RECURSIVE Split(_, _)
SplitAt(s, sep, i) ==
    IF i > Len(s) THEN <<s>>
    ELSE <<SubSeq(s, 1, i - 1)>> \o Split(From(s, i + 1), sep)
Split(s, sep) == SplitAt(s, sep, FirstOf(s, sep))

RECURSIVE Join(_, _)
Join(parts, sep) ==
    IF Len(parts) = 0 THEN ""
    ELSE IF Len(parts) = 1 THEN parts[1]
    ELSE parts[1] \o sep \o Join(Tail(parts), sep)

AllIn(s, set) == \A i \in 1..Len(s) : IndexIn(Ch(s, i), set) # 0

RECURSIVE DecString(_)
DecString(n) ==
    IF n < 10 THEN Ch(DecDigits, n + 1)
    ELSE DecString(n \div 10) \o Ch(DecDigits, (n % 10) + 1)

-----------------------------------------------------------------------------
(* new URL(value), the WHATWG URL parser, for the values parseUrl hands it: *)
(* value always starts, case-insensitively, with "http://" or "https://".   *)
(* Covered: ASCII letters, digits, space and . : / ? # - = ; @ ( ); not     *)
(* covered (and absent from every input below): tab and newline, backslash, *)
(* %, [ ], non-ASCII, and xn-- labels.                                      *)

HostForbidden == " <>^|"
AuthorityEnd == "/?#"
Failure == [fail |-> TRUE]

UrlScheme(value) ==
    IF startsWith(toLowerCase(value), "https://") THEN "https" ELSE "http"

\* "special authority ignore slashes state": every further slash is skipped
RECURSIVE SkipSlashes(_)
SkipSlashes(s) == IF s # "" /\ Ch(s, 1) = "/" THEN SkipSlashes(Rest(s)) ELSE s

\* a number of the IPv4 parser: 32 bits as four octets, and an overflow flag
Zero32 == [of |-> FALSE, o |-> <<0, 0, 0, 0>>]

Carry(o, R, c) == [digit |-> (o * R + c) % 256, carry |-> (o * R + c) \div 256]
MulAdd3(acc, c1, c2, c3, c4) ==
    [of |-> acc.of \/ c1.carry > 0, o |-> <<c1.digit, c2.digit, c3.digit, c4.digit>>]
MulAdd2(acc, R, c2, c3, c4) == MulAdd3(acc, Carry(acc.o[1], R, c2.carry), c2, c3, c4)
MulAdd1(acc, R, c3, c4) == MulAdd2(acc, R, Carry(acc.o[2], R, c3.carry), c3, c4)
MulAdd0(acc, R, c4) == MulAdd1(acc, R, Carry(acc.o[3], R, c4.carry), c4)
\* acc * R + d
MulAdd(acc, R, d) == MulAdd0(acc, R, Carry(acc.o[4], R, d))

RECURSIVE ParseDigits(_, _, _)
ParseDigits(s, R, acc) ==
    IF s = "" THEN acc
    ELSE ParseDigits(Rest(s), R, MulAdd(acc, R, IndexIn(Ch(s, 1), HexDigits) - 1))

\* the digits of a number in radix R: a character that is no digit of R fails
ParseRadix(body, R) ==
    IF \E i \in 1..Len(body) :
            IndexIn(Ch(body, i), HexDigits) = 0 \/ IndexIn(Ch(body, i), HexDigits) > R
    THEN Failure
    ELSE [fail |-> FALSE, n |-> ParseDigits(body, R, Zero32)]

\* "IPv4 number parser" on a lowercased part: Failure or [fail |-> FALSE, n |-> number]
ParseIPv4Number(s) ==
    IF s = "" THEN Failure
    ELSE IF Len(s) >= 2 /\ startsWith(s, "0x") THEN ParseRadix(From(s, 3), 16)
    ELSE IF Len(s) >= 2 /\ startsWith(s, "0") THEN ParseRadix(Rest(s), 8)
    ELSE ParseRadix(s, 10)

\* the labels without one trailing empty label
DropEmptyLast(parts) ==
    IF Len(parts) > 1 /\ parts[Len(parts)] = ""
    THEN SubSeq(parts, 1, Len(parts) - 1) ELSE parts
HostParts(host) == DropEmptyLast(Split(host, "."))

\* "ends in a number checker", on the last label that counts
LastIsNumber(last) ==
    \/ last # "" /\ AllIn(last, DecDigits)
    \/ ~ParseIPv4Number(last).fail
LastPart(parts) == parts[Len(parts)]
EndsInNumber(host) == host # "" /\ LastIsNumber(LastPart(HostParts(host)))

Big(x) == x.of \/ x.o[1] # 0 \/ x.o[2] # 0 \/ x.o[3] # 0
Octet(nums, n, i) == IF i < n THEN nums[i].n.o[4] ELSE nums[n].n.o[i]

\* "IPv4 parser" on the parsed numbers, serialized
IPv4OfNumbers(nums, n) ==
    IF n > 4 THEN Failure
    ELSE IF \E i \in 1..n : nums[i].fail THEN Failure
    ELSE IF \E i \in 1..(n - 1) : Big(nums[i].n) THEN Failure
    ELSE IF nums[n].n.of \/ \E i \in 1..(n - 1) : nums[n].n.o[i] # 0 THEN Failure
    ELSE [fail |-> FALSE,
          host |-> Join([i \in 1..4 |-> DecString(Octet(nums, n, i))], ".")]
IPv4OfParts(parts) ==
    IPv4OfNumbers([i \in 1..Len(parts) |-> ParseIPv4Number(parts[i])], Len(parts))
\* "IPv4 parser": Failure or [fail |-> FALSE, host |-> "a.b.c.d"]
ParseIPv4(host) == IPv4OfParts(HostParts(host))

IPv4Host(v4) ==
    IF v4.fail THEN Failure ELSE [fail |-> FALSE, host |-> v4.host, ip |-> TRUE]

\* "host parser" of a special scheme, on the lowercased domain:
\* Failure or [fail |-> FALSE, host |-> serialized host, ip |-> is an IPv4 address]
HostOfDomain(domain) ==
    IF domain = "" THEN Failure
    ELSE IF \E i \in 1..Len(domain) : IndexIn(Ch(domain, i), HostForbidden) # 0
    THEN Failure
    ELSE IF EndsInNumber(domain) THEN IPv4Host(ParseIPv4(domain))
    ELSE [fail |-> FALSE, host |-> domain, ip |-> FALSE]
ParseHost(raw) == HostOfDomain(toLowerCase(raw))

MaxPort == 65535

\* number of a digit string, MaxPort + 1 when larger
Capped(v) == IF v > MaxPort THEN MaxPort + 1 ELSE v
RECURSIVE PortValue(_, _)
PortValue(s, acc) ==
    IF s = "" THEN acc
    ELSE PortValue(Rest(s), Capped(acc * 10 + (IndexIn(Ch(s, 1), DecDigits) - 1)))

DefaultPort(scheme) == IF scheme = "https" THEN 443 ELSE 80

PortOfValue(v, scheme) ==
    IF v > MaxPort THEN Failure
    ELSE IF v = DefaultPort(scheme) THEN [fail |-> FALSE, text |-> ""]
    ELSE [fail |-> FALSE, text |-> ":" \o DecString(v)]
\* "port state": Failure or [fail |-> FALSE, text |-> "" or ":" and the port]
ParsePort(raw, scheme) ==
    IF raw = "" THEN [fail |-> FALSE, text |-> ""]
    ELSE IF ~AllIn(raw, DecDigits) THEN Failure
    ELSE PortOfValue(PortValue(raw, 0), scheme)

\* percent-encoding of the one character of the alphabet that path, query
\* and fragment encode: the space
RECURSIVE Encode(_)
Encode(s) ==
    IF s = "" THEN ""
    ELSE (IF Ch(s, 1) = " " THEN "%20" ELSE Ch(s, 1)) \o Encode(Rest(s))

Popped(acc) == IF Len(acc) = 0 THEN acc ELSE SubSeq(acc, 1, Len(acc) - 1)
\* "path state" for one segment; last: it is the final one
AddSegment(acc, seg, last) ==
    IF seg = ".." THEN (IF last THEN Popped(acc) \o <<"">> ELSE Popped(acc))
    ELSE IF seg = "." THEN (IF last THEN acc \o <<"">> ELSE acc)
    ELSE acc \o <<Encode(seg)>>
\* "path state": dot segments are removed while the segments are collected
RECURSIVE RemoveDotSegments(_, _)
RemoveDotSegments(segs, acc) ==
    IF Len(segs) = 0 THEN acc
    ELSE RemoveDotSegments(Tail(segs), AddSegment(acc, Head(segs), Len(segs) = 1))

\* the segments after the first that start with a dot
DotStarts(segs) == {i \in 2..Len(segs) : startsWith(segs[i], ".")}
FirstDotStart(segs) == CHOOSE i \in DotStarts(segs) : \A j \in DotStarts(segs) : i <= j
\* The parser of the runtime (Ada, in Node 20) looks for dot segments only
\* in a path of characters it need not encode and that does not begin with
\* a dot, and there only at the first "/.": when what follows that is
\* neither a dot, a slash nor the end, the path is taken as written.
KeptAsWritten(segs) ==
    /\ \A i \in 1..Len(segs) : Encode(segs[i]) = segs[i]
    /\ ~startsWith(segs[1], ".")
    /\ DotStarts(segs) # {}
    /\ Len(segs[FirstDotStart(segs)]) >= 2
    /\ Ch(segs[FirstDotStart(segs)], 2) # "."

\* the segments of the serialized path, from those of the path as written
PathSegments(segs, acc) ==
    IF Len(segs) > 0 /\ KeptAsWritten(segs) THEN acc \o segs
    ELSE RemoveDotSegments(segs, acc)

SerializePath(path) ==
    "/" \o Join(PathSegments(IF path = "" THEN <<"">> ELSE Split(Rest(path), "/"), <<>>), "/")

\* path, query and fragment, serialized; cut: where the path ends
SerializeRest(rest, cut) ==
    SerializePath(SubSeq(rest, 1, cut - 1)) \o Encode(From(rest, cut))

UrlOfParts(scheme, userinfo, host, port, rest) ==
    IF host.fail \/ port.fail THEN [ok |-> FALSE]
    ELSE [ok |-> TRUE,
          protocol |-> scheme \o ":",
          hostname |-> host.host,
          ip |-> host.ip,
          href |-> scheme \o "://" \o userinfo \o host.host \o port.text
                   \o SerializeRest(rest, FirstOf(rest, "?#"))]

\* "host state" and "port state": what follows the credentials splits at its
\* first colon
UrlOfAuthority(scheme, userinfo, auth, colon, rest) ==
    UrlOfParts(scheme, userinfo, ParseHost(SubSeq(auth, 1, colon - 1)),
               ParsePort(From(auth, colon + 1), scheme), rest)

\* position of the last "@" of s, 0 when there is none
LastAt(s) ==
    IF \E i \in 1..Len(s) : Ch(s, i) = "@"
    THEN CHOOSE i \in 1..Len(s) :
            Ch(s, i) = "@" /\ \A j \in (i + 1)..Len(s) : Ch(s, j) # "@"
    ELSE 0

\* percent-encoding of the characters of the alphabet that are in the
\* userinfo percent-encode set
UserinfoEscapes == [c \in {" ", ":", ";", "=", "@"} |->
    IF c = " " THEN "%20" ELSE IF c = ":" THEN "%3A" ELSE IF c = ";" THEN "%3B"
    ELSE IF c = "=" THEN "%3D" ELSE "%40"]
RECURSIVE EncodeUserinfo(_)
EncodeUserinfo(s) ==
    IF s = "" THEN ""
    ELSE (IF Ch(s, 1) \in DOMAIN UserinfoEscapes THEN UserinfoEscapes[Ch(s, 1)] ELSE Ch(s, 1))
         \o EncodeUserinfo(Rest(s))

\* the credentials as the href shows them: username, ":" and password when
\* there is one, "@"; nothing when both are empty.  colon: the first colon
\* of cred, which ends the username
Userinfo(cred, colon) ==
    IF SubSeq(cred, 1, colon - 1) = "" /\ From(cred, colon + 1) = "" THEN ""
    ELSE EncodeUserinfo(SubSeq(cred, 1, colon - 1))
         \o (IF From(cred, colon + 1) = "" THEN ""
             ELSE ":" \o EncodeUserinfo(From(cred, colon + 1)))
         \o "@"

\* "authority state": what precedes the last "@" (at) is the credentials; a
\* host must follow it
UrlOfCredentials(scheme, auth, at, rest) ==
    IF at = 0
    THEN UrlOfAuthority(scheme, "", auth, FirstOf(auth, ":"), rest)
    ELSE IF at = Len(auth) THEN [ok |-> FALSE]
    ELSE UrlOfAuthority(scheme,
                        Userinfo(SubSeq(auth, 1, at - 1), FirstOf(SubSeq(auth, 1, at - 1), ":")),
                        From(auth, at + 1), FirstOf(From(auth, at + 1), ":"), rest)

\* "authority state": the authority ends at the first / ? # or at the end
UrlAfterSlashes(scheme, s, end) ==
    UrlOfCredentials(scheme, SubSeq(s, 1, end - 1), LastAt(SubSeq(s, 1, end - 1)),
                     From(s, end))

UrlOfScheme(scheme, value) ==
    UrlAfterSlashes(scheme, SkipSlashes(From(value, Len(scheme) + 2)),
                    FirstOf(SkipSlashes(From(value, Len(scheme) + 2)), AuthorityEnd))

\* new URL(value): [ok |-> FALSE] (a TypeError) or the fields checkUrl reads
NewURL(value) == UrlOfScheme(UrlScheme(value), value)

-----------------------------------------------------------------------------
(* script.js: the URL helpers.                                             *)

EmptyUrlMessage == "Pusty adres URL"
\* the message of the TypeError new URL throws: engine text, not the program's
InvalidUrlMessage == "Invalid URL"

\* /^https?:\/\//i.test(value)
HasHttpPrefix(value) ==
    startsWith(toLowerCase(value), "http://") \/ startsWith(toLowerCase(value), "https://")

\* WithScheme with the regular expression lacking its i flag
WithSchemeCaseSensitive(value) ==
    IF ~(startsWith(value, "http://") \/ startsWith(value, "https://"))
    THEN "https://" \o value ELSE value

\* WithScheme prepending the insecure scheme
WithSchemeHttp(value) == IF ~HasHttpPrefix(value) THEN "http://" \o value ELSE value

\* parseUrl, lines 56-58, on the trimmed value: the string handed to new URL
WithScheme(value) == IF ~HasHttpPrefix(value) THEN "https://" \o value ELSE value
NormalizedValue(input) == WithScheme(trim(input))

UrlOrThrow(u) == IF u.ok THEN u ELSE [ok |-> FALSE, error |-> InvalidUrlMessage]

\* parseUrl with a guard that throws for an IP address
parseUrlBlockingIp(input) ==
    IF trim(input) = "" THEN [ok |-> FALSE, error |-> EmptyUrlMessage]
    ELSE IF NewURL(NormalizedValue(input)).ok /\ NewURL(NormalizedValue(input)).ip
    THEN [ok |-> FALSE, error |-> "SsrfBlockedError"]
    ELSE UrlOrThrow(NewURL(NormalizedValue(input)))

\* parseUrl: [ok |-> FALSE, error |-> message of the thrown error] or the URL object
parseUrl(input) ==
    IF trim(input) = "" THEN [ok |-> FALSE, error |-> EmptyUrlMessage]
    ELSE UrlOrThrow(NewURL(NormalizedValue(input)))

InGovPlZone(d) == d = "gov.pl" \/ endsWith(d, ".gov.pl")

\* isGovPlDomain without line 65
isGovPlDomainCaseSensitive(domain) == InGovPlZone(domain)

isGovPlDomain(domain) == InGovPlZone(toLowerCase(domain))

isTls(urlObj) == urlObj.protocol = "https:"

\* NoWww removing every leading "www."
NoWwwRepeated(d) ==
    IF startsWith(d, "www.www.") THEN From(d, 9)
    ELSE IF startsWith(d, "www.") THEN From(d, 5) ELSE d

NoWww(d) == IF startsWith(d, "www.") THEN From(d, 5) ELSE d
InSetWithOrWithoutWww(d, trustedSet) == d \in trustedSet \/ NoWww(d) \in trustedSet
isInTrustedDomains(domain, trustedSet) == InSetWithOrWithoutWww(toLowerCase(domain), trustedSet)

\* loadTrustedDomains, lines 19-26: the Set built from the parsed JSON array
DomainSet(domains) ==
    {toLowerCase(trim(domains[i])) : i \in 1..Len(domains)} \ {""}


-----------------------------------------------------------------------------
(* The environment of script.js: what the user types or a QR code holds,   *)
(* what fetch("domains.json") yields, what /api/check-tls answers.         *)

Handlers == {"click", "qr"}

\* inputs of checkUrl in Spec
CheckInputs ==
    { "gov.pl", "http://www.gov.pl", "http://192.168.1.1", "ftp://host",
      "mailto:user@gov.pl", "", "   ", "a b", "javascript:alert(1)" }

\* parseUrl of each of them, tabulated
ParsedInputs == [input \in CheckInputs |-> parseUrl(input)]

\* outcomes of loadTrustedDomains: the parsed array, or the error thrown
LoadOutcomes ==
    { [ok |-> TRUE, domains |-> <<"gov.pl", " AI.GOV.PL ", "">>],
      [ok |-> TRUE, domains |-> <<"example.com">>],
      [ok |-> FALSE, message |-> "Failed to fetch"],
      [ok |-> FALSE, message |-> "Nie udalo sie pobrac domains.json (status 404)"] }

\* outcomes of checkTlsOnBackend: the promise rejects (fetch or resp.json()
\* throws), or resolves to the parsed JSON value, null or an object whose
\* absent fields read as undefined
undefined == "undefined"
TlsOutcomes ==
    { [rejects |-> TRUE, message |-> "Failed to fetch"],
      [rejects |-> FALSE, data |-> NullObject],
      [rejects |-> FALSE, data |-> [ok |-> JsTrue, tls_ok |-> JsTrue, error |-> undefined]],
      [rejects |-> FALSE, data |-> [ok |-> JsTrue, tls_ok |-> JsFalse, error |-> undefined]],
      [rejects |-> FALSE, data |-> [ok |-> JsTrue, tls_ok |-> undefined, error |-> undefined]],
      [rejects |-> FALSE, data |-> [ok |-> JsFalse, tls_ok |-> undefined, error |-> "IP addresses are not allowed"]],
      [rejects |-> FALSE, data |-> [ok |-> undefined, tls_ok |-> JsTrue, error |-> undefined]] }

\* a || b on strings
OrElse(a, b) == IF a \in {"", null, undefined} THEN b ELSE a

\* the program's fixed messages, with the Polish diacritics written in ASCII
TrustedFallbackMessage == "Nie udalo sie wczytac listy domains.json"
TlsInvalidMessage == "Nieprawidlowa odpowiedz z serwera TLS"
TlsFallbackMessage == "Blad sprawdzania TLS po stronie serwera"
UrlFallbackMessage == "Nieprawidlowy adres URL"

-----------------------------------------------------------------------------
(* script.js: renderResult, as the parts of the markup it chooses.         *)

\* lines 202-205
looksTrusted(result) ==
    /\ result.isGovPl
    /\ \/ result.backendTls = JsTrue
       \/ result.backendTls = null /\ result.isTls
    /\ result.isTrusted = JsTrue

renderResult(result) ==
    IF ~result.ok
    THEN [kind |-> "error", text |-> result.error]
    ELSE [kind |-> "result",
          domain |-> result.domain,
          gov |-> IF result.isGovPl THEN "TAK" ELSE "NIE",
          https |-> IF result.isTls THEN "TAK" ELSE "NIE",
          backendTlsLine |->
              IF result.backendTls = JsTrue
              THEN [class |-> "result-ok", strong |-> "OK", text |-> ""]
              ELSE IF result.backendTls = JsFalse
              THEN [class |-> "result-bad", strong |-> "BLAD",
                    text |-> OrElse(result.backendTlsError, "")]
              ELSE IF result.backendTlsError \notin {"", null, undefined}
              THEN [class |-> "result-bad", strong |-> "", text |-> result.backendTlsError]
              ELSE [class |-> "", strong |-> "", text |-> ""],
          trustedLine |->
              IF result.isTrusted = JsTrue
              THEN [class |-> "result-ok", strong |-> "TAK", text |-> ""]
              ELSE IF result.isTrusted = JsFalse
              THEN [class |-> "result-bad", strong |-> "NIE", text |-> ""]
              ELSE [class |-> "result-bad", strong |-> "",
                    text |-> OrElse(result.trustedErrorMsg, "")],
          summary |-> IF looksTrusted(result) THEN "summary-ok" ELSE "summary-warn"]

-----------------------------------------------------------------------------
(* script.js: checkUrl, one action per stretch between two awaits.         *)

\* invocations of the two handlers whose records are kept at a time: those
\* in flight and, until its place is taken, one that has rendered
MaxCalls == 2
Calls == 1..MaxCalls
NoCall == 0

Idle == [pc |-> "idle"]
NoRequests == [allowList |-> 0, tls |-> 0]
InFlight == {"loading", "tls"}

\* the place of a new invocation: one never used if there is one, else that
\* of an invocation that is over
UnusedCalls == {c \in Calls : call[c].pc = "idle"}
FreeCalls == {c \in Calls : call[c].pc \notin InFlight}
Lowest(S) == CHOOSE c \in S : \A d \in S : c <= d
NewCall == IF UnusedCalls # {} THEN Lowest(UnusedCalls) ELSE Lowest(FreeCalls)

\* ensureTrustedLoaded, lines 30-35: what it settles to without a fetch,
\* NullObject when it goes on to loadTrustedDomains
EnsureNow ==
    IF trustedLoaded /\ trustedDomains # NullObject
    THEN [ok |-> TRUE, set |-> trustedDomains.set]
    ELSE IF trustedLoadingError # NullObject
    THEN [ok |-> FALSE, message |-> trustedLoadingError.message]
    ELSE NullObject

\* checkUrl, lines 133-138: the result of the outer catch
ErrorResult(message) == [ok |-> FALSE, error |-> OrElse(message, UrlFallbackMessage)]

\* the text each handler puts into #results before it calls checkUrl
CheckingMessage(h) ==
    IF h = "click" THEN "Sprawdzam adres." ELSE "Odebrano adres z kodu QR. Sprawdzam..."

\* AllowListVerdict with isTrusted starting out true instead of null
AllowListVerdictDefaultTrue(domain, ensured) ==
    IF ensured.ok
    THEN [isTrusted |-> IF isInTrustedDomains(domain, ensured.set) THEN JsTrue ELSE JsFalse,
          trustedErrorMsg |-> null]
    ELSE [isTrusted |-> JsTrue,
          trustedErrorMsg |-> OrElse(ensured.message, TrustedFallbackMessage)]

\* checkUrl, lines 97-104: the allow-list verdict of this call, from what
\* ensureTrustedLoaded settled to
AllowListVerdict(domain, ensured) ==
    IF ensured.ok
    THEN [isTrusted |-> IF isInTrustedDomains(domain, ensured.set) THEN JsTrue ELSE JsFalse,
          trustedErrorMsg |-> null]
    ELSE [isTrusted |-> null,
          trustedErrorMsg |-> OrElse(ensured.message, TrustedFallbackMessage)]

\* the locals of checkUrl while it awaits /api/check-tls; ensured records what
\* ensureTrustedLoaded settled to for this call, loadFailed whether it threw
AwaitingTls(h, input, urlObj, ensured) ==
    [pc |-> "tls", handler |-> h, input |-> input, urlObj |-> urlObj,
     domain |-> toLowerCase(urlObj.hostname), loadFailed |-> ~ensured.ok,
     ensured |-> ensured]
    @@ AllowListVerdict(toLowerCase(urlObj.hostname), ensured)

\* the handler resumes after await checkUrl(...), in the same turn of the
\* event loop in which checkUrl returned, and renders
Render(result) == resultsDiv' = renderResult(result)

\* checkUrl, lines 100-110: resumes after ensureTrustedLoaded and issues the
\* request to /api/check-tls; fetched: the fetches of domains.json it issued
AfterEnsure(c, h, input, urlObj, ensured, fetched) ==
    /\ call' = [call EXCEPT ![c] = AwaitingTls(h, input, urlObj, ensured)]
    /\ requests' = [requests EXCEPT ![c] = [allowList |-> fetched, tls |-> 1]]

\* checkUrl after parseUrl returned urlObj: the synchronous head of
\* ensureTrustedLoaded (ensured) and, if it did not settle, fetch(domains.json)
Begin(c, h, input, urlObj, ensured) ==
    IF ensured # NullObject
    THEN AfterEnsure(c, h, input, urlObj, ensured, 0)
    ELSE /\ call' = [call EXCEPT ![c] =
                [pc |-> "loading", handler |-> h, input |-> input, urlObj |-> urlObj]]
         /\ requests' = [requests EXCEPT ![c] = [allowList |-> 1, tls |-> 0]]

\* Enter with the allow-list requested before the URL is parsed
EnterLoadingFirst(c, h, input, urlObj) ==
    IF ~urlObj.ok
    THEN /\ call' = [call EXCEPT ![c] =
                [pc |-> "returned", handler |-> h, input |-> input,
                 result |-> ErrorResult(urlObj.error)]]
         /\ requests' = [requests EXCEPT ![c] = [allowList |-> 1, tls |-> 0]]
         /\ Render(ErrorResult(urlObj.error))
    ELSE /\ resultsDiv' = [kind |-> "message", text |-> CheckingMessage(h)]
         /\ Begin(c, h, input, urlObj, EnsureNow)

\* the handler from the text it puts into #results to the first suspension of
\* checkUrl on a request; when parseUrl throws, checkUrl returns the error
\* with no request made and the handler renders it at once
Enter(c, h, input, urlObj) ==
    IF ~urlObj.ok
    THEN /\ call' = [call EXCEPT ![c] =
                [pc |-> "returned", handler |-> h, input |-> input,
                 result |-> ErrorResult(urlObj.error)]]
         /\ requests' = [requests EXCEPT ![c] = NoRequests]
         /\ Render(ErrorResult(urlObj.error))
    ELSE /\ resultsDiv' = [kind |-> "message", text |-> CheckingMessage(h)]
         /\ Begin(c, h, input, urlObj, EnsureNow)

\* Start with the decode callback checking the content of the (empty) input
\* field instead of the decoded text
StartFromField(h, input) ==
    /\ FreeCalls # {}
    /\ Enter(NewCall, h, input, ParsedInputs[IF h = "qr" THEN "" ELSE input])
    /\ latest' = NewCall
    /\ UNCHANGED <<trustedDomains, trustedLoaded, trustedLoadingError>>

\* a handler runs until checkUrl suspends on a request or returns: parseUrl,
\* then ensureTrustedLoaded and either fetch(domains.json) or, the list or
\* its error being known, the request to /api/check-tls.  Nothing keeps a
\* handler from running while earlier invocations are in flight.
Start(h, input) ==
    /\ FreeCalls # {}
    /\ Enter(NewCall, h, input, ParsedInputs[input])
    /\ latest' = NewCall
    /\ UNCHANGED <<trustedDomains, trustedLoaded, trustedLoadingError>>

\* ensureTrustedLoaded, lines 37-45: loadTrustedDomains has settled; checkUrl
\* resumes with the set or the error and issues the request to /api/check-tls
LoadSettle(c, outcome) ==
    /\ call[c].pc = "loading"
    /\ IF outcome.ok
       THEN /\ trustedDomains' = [set |-> DomainSet(outcome.domains)]
            /\ trustedLoaded' = TRUE
            /\ UNCHANGED trustedLoadingError
            /\ AfterEnsure(c, call[c].handler, call[c].input, call[c].urlObj,
                           [ok |-> TRUE, set |-> DomainSet(outcome.domains)],
                           requests[c].allowList)
       ELSE /\ trustedLoadingError' = [message |-> outcome.message]
            /\ UNCHANGED <<trustedDomains, trustedLoaded>>
            /\ AfterEnsure(c, call[c].handler, call[c].input, call[c].urlObj,
                           [ok |-> FALSE, message |-> outcome.message],
                           requests[c].allowList)
    /\ UNCHANGED <<resultsDiv, latest>>

\* TlsVerdict without the test of tlsResult.ok
TlsVerdictIgnoringOk(outcome) ==
    IF outcome.rejects
    THEN [backendTls |-> null,
          backendTlsError |-> OrElse(outcome.message, TlsFallbackMessage)]
    ELSE IF outcome.data # NullObject
    THEN [backendTls |-> IF outcome.data.tls_ok = JsTrue THEN JsTrue ELSE JsFalse,
          backendTlsError |-> null]
    ELSE [backendTls |-> null, backendTlsError |-> TlsInvalidMessage]

\* checkUrl, lines 107-121: the tri-state TLS verdict
TlsVerdict(outcome) ==
    IF outcome.rejects
    THEN [backendTls |-> null,
          backendTlsError |-> OrElse(outcome.message, TlsFallbackMessage)]
    ELSE IF outcome.data # NullObject /\ outcome.data.ok = JsTrue
    THEN [backendTls |-> IF outcome.data.tls_ok = JsTrue THEN JsTrue ELSE JsFalse,
          backendTlsError |-> null]
    ELSE [backendTls |-> null,
          backendTlsError |->
              IF outcome.data # NullObject /\ outcome.data.error \notin {"", null, undefined}
              THEN outcome.data.error ELSE TlsInvalidMessage]

\* OkResult looking the domain up in trustedDomains as it is at the return
OkResultFromGlobals(c, tls) ==
    [ok |-> TRUE,
     domain |-> c.domain,
     isGovPl |-> isGovPlDomain(c.domain),
     isTls |-> isTls(c.urlObj),
     isTrusted |-> IF ~trustedLoaded THEN null
                   ELSE IF isInTrustedDomains(c.domain, trustedDomains.set)
                   THEN JsTrue ELSE JsFalse,
     trustedErrorMsg |-> c.trustedErrorMsg,
     backendTls |-> tls.backendTls,
     backendTlsError |-> tls.backendTlsError]

\* checkUrl, lines 123-132
OkResult(c, tls) ==
    [ok |-> TRUE,
     domain |-> c.domain,
     isGovPl |-> isGovPlDomain(c.domain),
     isTls |-> isTls(c.urlObj),
     isTrusted |-> c.isTrusted,
     trustedErrorMsg |-> c.trustedErrorMsg,
     backendTls |-> tls.backendTls,
     backendTlsError |-> tls.backendTlsError]

\* what checkUrl returns for a rejected TLS request without the inner try
ReturnedUncaught(c, outcome) ==
    [pc |-> "returned", handler |-> c.handler, input |-> c.input,
     urlObj |-> c.urlObj, ensured |-> c.ensured,
     loadFailed |-> c.loadFailed, tlsOutcome |-> outcome,
     result |-> IF outcome.rejects THEN ErrorResult(outcome.message)
                ELSE OkResult(c, TlsVerdict(outcome))]

\* the record of an invocation that is over: what checkUrl returned, and
\* loadFailed and tlsOutcome, what its two requests yielded
ReturnedCall(c, outcome) ==
    [pc |-> "returned", handler |-> c.handler, input |-> c.input,
     urlObj |-> c.urlObj, ensured |-> c.ensured,
     loadFailed |-> c.loadFailed, tlsOutcome |-> outcome,
     result |-> OkResult(c, TlsVerdict(outcome))]

\* checkUrl, lines 110-132: checkTlsOnBackend has settled, checkUrl returns
\* and the handler renders the result
TlsSettle(c, outcome) ==
    /\ call[c].pc = "tls"
    /\ call' = [call EXCEPT ![c] = ReturnedCall(call[c], outcome)]
    /\ Render(ReturnedCall(call[c], outcome).result)
    /\ UNCHANGED <<trustedDomains, trustedLoaded, trustedLoadingError, requests, latest>>

-----------------------------------------------------------------------------
(* script.js: the QR scanner.  Html5Qrcode is a library outside the        *)
(* sources; an instance is modelled by what its promises can do: start()   *)
(* resolves (the camera runs) or rejects; stop() on a running instance     *)
(* resolves (the camera is released) or rejects (it keeps running); stop() *)
(* on an instance that is not running, or is being stopped, refuses,       *)
(* either by throwing at once or by a promise that rejects.                *)

\* instances that can exist at a time, and refused stop() promises pending at a time
MaxScanners == 2
MaxDoomed == 1

Instances == 1..MaxScanners
NoScanner == 0
NotCreated == [state |-> "none", stopping |-> FALSE]
Alive == {"starting", "scanning"}

\* texts a QR code holds, and the reasons start() rejects with
QrTexts == {"gov.pl", "a b"}
StartErrors == {"NotAllowedError: Permission denied"}

LibraryMissingMessage == "Skaner QR nie jest dostepny (brak biblioteki html5-qrcode)."
StartFailedMessage(err) == "Nie udalo sie uruchomic skanera QR: " \o err

\* an identity for new Html5Qrcode(...): one that no live instance and no
\* pending promise uses
Free == {i \in Instances : scanner[i].state \notin Alive /\ ~scanner[i].stopping}
NewInstance == CHOOSE i \in Free : \A j \in Free : i <= j

\* startQrScanner, lines 245-270, up to the await of start()
StartQrScanner ==
    /\ qrSectionHidden' = FALSE
    /\ IF ~html5Qrcode
       THEN /\ resultsDiv' = [kind |-> "error", text |-> LibraryMissingMessage]
            /\ UNCHANGED <<qrScanner, qrScanning, scanner>>
       ELSE IF qrScanning
       THEN UNCHANGED <<resultsDiv, qrScanner, qrScanning, scanner>>
       ELSE /\ Free # {}
            /\ qrScanner' = NewInstance
            /\ qrScanning' = TRUE
            /\ scanner' = [scanner EXCEPT ![NewInstance] =
                                [state |-> "starting", stopping |-> FALSE]]
            /\ UNCHANGED resultsDiv
    /\ UNCHANGED <<trustedDomains, trustedLoaded, trustedLoadingError, call, requests,
                   latest, html5Qrcode, doomedStops>>

\* startQrScanner, lines 269-297: start() of instance i has settled
StartSettle(i, outcome) ==
    /\ scanner[i].state = "starting"
    /\ IF outcome.ok
       THEN /\ scanner' = [scanner EXCEPT ![i].state = "scanning"]
            /\ UNCHANGED <<qrScanning, resultsDiv>>
       ELSE /\ scanner' = [scanner EXCEPT ![i].state = "failed"]
            /\ qrScanning' = FALSE
            /\ resultsDiv' = [kind |-> "error", text |-> StartFailedMessage(outcome.err)]
    /\ UNCHANGED <<trustedDomains, trustedLoaded, trustedLoadingError, call, requests,
                   latest, qrScanner, qrSectionHidden, html5Qrcode, doomedStops>>

\* the instance accepts stop(): it is running and not being stopped
CanStop(i) == scanner[i].state = "scanning" /\ ~scanner[i].stopping

\* qrScanner.stop() at line 307 throws instead of returning a promise
StopThrows(throws) == qrScanner # NoScanner /\ ~CanStop(qrScanner) /\ throws

\* stopQrScanner, lines 300-320, up to the return; throws is what a refusing
\* stop() does
stopQrScanner(throws) ==
    /\ qrSectionHidden' = TRUE
    /\ IF qrScanner = NoScanner
       THEN /\ qrScanning' = FALSE
            /\ UNCHANGED <<qrScanner, scanner, doomedStops>>
       ELSE IF CanStop(qrScanner)
       THEN /\ scanner' = [scanner EXCEPT ![qrScanner].stopping = TRUE]
            /\ UNCHANGED <<qrScanner, qrScanning, doomedStops>>
       ELSE IF throws
       THEN UNCHANGED <<qrScanner, qrScanning, scanner, doomedStops>>
       ELSE /\ doomedStops < MaxDoomed
            /\ doomedStops' = doomedStops + 1
            /\ UNCHANGED <<qrScanner, qrScanning, scanner>>
    /\ UNCHANGED html5Qrcode

\* the click listener of qr-stop-btn, lines 372-375
StopClick(throws) ==
    /\ stopQrScanner(throws)
    /\ UNCHANGED <<trustedDomains, trustedLoaded, trustedLoadingError, call, resultsDiv,
                   requests, latest>>

\* lines 308-316: stop() of instance i has settled; .then and .catch both end
\* with qrScanner = null and qrScanning = false (a clear() that throws in
\* .then is caught by .catch)
StopSettle(i, resolved) ==
    /\ scanner[i].stopping
    /\ scanner' = [scanner EXCEPT ![i] =
           [state |-> IF resolved THEN "stopped" ELSE "scanning", stopping |-> FALSE]]
    /\ qrScanner' = NoScanner
    /\ qrScanning' = FALSE
    /\ UNCHANGED <<trustedDomains, trustedLoaded, trustedLoadingError, call, resultsDiv,
                   requests, latest, qrSectionHidden, html5Qrcode, doomedStops>>

\* lines 313-316: a refused stop() rejects
DoomedSettle ==
    /\ doomedStops > 0
    /\ doomedStops' = doomedStops - 1
    /\ qrScanner' = NoScanner
    /\ qrScanning' = FALSE
    /\ UNCHANGED <<trustedDomains, trustedLoaded, trustedLoadingError, call, resultsDiv,
                   requests, latest, qrSectionHidden, html5Qrcode, scanner>>

\* the click listener of check-btn, lines 333-337, until checkUrl suspends
ClickHandler(input) ==
    /\ Start("click", input)
    /\ UNCHANGED <<qrScanner, qrScanning, qrSectionHidden, html5Qrcode, scanner, doomedStops>>

\* the decode callback, lines 273-285, until checkUrl suspends; a stop() that
\* throws ends the callback at line 275
DecodeCallback(text, throws) ==
    /\ stopQrScanner(throws)
    /\ IF StopThrows(throws)
       THEN UNCHANGED <<trustedDomains, trustedLoaded, trustedLoadingError, call, resultsDiv,
                        requests, latest>>
       ELSE Start("qr", text)

\* the library calls the decode callback of a running instance
Decode(i, text) ==
    /\ CanStop(i)
    /\ \E throws \in BOOLEAN : DecodeCallback(text, throws)

-----------------------------------------------------------------------------
(* The session engine (backend.py, not among the sources): modelled from   *)
(* spec.md section 4.5.  confirmSession is the lookup and status check,    *)
(* then the compare-and-set; the status read applies expiry lazily.        *)

MaxSessions == 1
MaxTime == 3
\* the time to live of a session, in ticks of the clock
TtlSeconds == 1

Tokens == 1..MaxSessions
Confirmers == {"app", "other"}
Decisions == {"Confirmed", "Rejected"}
Terminal == {"Confirmed", "Rejected", "Expired"}
SessionUrls == {"https://elblag.piw.gov.pl", "http://192.168.1.1", " "}

NoSession == [status |-> "None"]
NoReply == [token |-> 0]
Resting == [pc |-> "idle"]

\* the reason a caller passes: each caller has its own
ReasonOf(p) == "decided by " \o p

\* section 4.1 as createSession uses it: the error, or "" when the URL is accepted
ErrorOfParsed(url, u) ==
    IF trim(url) = "" THEN "EmptyInputError"
    ELSE IF ~u.ok THEN "MalformedUrlError"
    ELSE IF u.ip THEN "SsrfBlockedError"
    ELSE ""
NormalizeError(url) == ErrorOfParsed(url, parseUrl(url))
\* the normalizer applied to each URL createSession is given, tabulated
Normalized == [url \in SessionUrls |-> [error |-> NormalizeError(url), url |-> parseUrl(url)]]

\* tokens are never reused: the next one is the first never issued
Issued == {t \in Tokens : sessions[t] # NoSession}

NextToken == CHOOSE x \in Tokens \ Issued : \A y \in Tokens \ Issued : x <= y

CreateSession(url) ==
    /\ Issued # Tokens
    /\ IF Normalized[url].error # ""
       THEN UNCHANGED sessions
       ELSE sessions' = [sessions EXCEPT ![NextToken] =
                [status |-> "Pending", url |-> Normalized[url].url.href,
                 createdAt |-> now, ttlSeconds |-> TtlSeconds, reason |-> null]]
    /\ lastStatus' = NoReply
    /\ UNCHANGED <<now, confirmer>>

\* confirmSession, first half: look the token up and check its status; raced
\* records that the call found the session Pending and went on to the
\* compare-and-set
ConfirmBegin(p, t, decision) ==
    /\ confirmer[p].pc = "idle"
    /\ confirmer' = [confirmer EXCEPT ![p] =
           IF sessions[t] = NoSession
           THEN [pc |-> "done", token |-> t, decision |-> decision, raced |-> FALSE,
                 outcome |-> "SessionNotFoundError"]
           ELSE IF sessions[t].status # "Pending"
           THEN [pc |-> "done", token |-> t, decision |-> decision, raced |-> FALSE,
                 outcome |-> "SessionAlreadyFinalizedError"]
           ELSE [pc |-> "checked", token |-> t, decision |-> decision]]
    /\ lastStatus' = NoReply
    /\ UNCHANGED <<sessions, now>>

\* CompareAndSet as a plain write, without the comparison
CompareAndSetUnconditional(session, decision, reason) ==
    [took |-> TRUE, session |-> [session EXCEPT !.status = decision, !.reason = reason]]

\* the atomic compare-and-set from Pending: the session after it, and whether it took
CompareAndSet(session, decision, reason) ==
    IF session.status = "Pending"
    THEN [took |-> TRUE, session |-> [session EXCEPT !.status = decision, !.reason = reason]]
    ELSE [took |-> FALSE, session |-> session]

ApplyCas(p, t, cas) ==
    /\ sessions' = [sessions EXCEPT ![t] = cas.session]
    /\ confirmer' = [confirmer EXCEPT ![p] =
           [pc |-> "done", token |-> t, decision |-> confirmer[p].decision, raced |-> TRUE,
            outcome |-> IF cas.took THEN "ok" ELSE "SessionAlreadyFinalizedError"]]

\* confirmSession, second half: the compare-and-set and the reply
ConfirmCas(p) ==
    /\ confirmer[p].pc = "checked"
    /\ ApplyCas(p, confirmer[p].token,
                CompareAndSet(sessions[confirmer[p].token], confirmer[p].decision, ReasonOf(p)))
    /\ lastStatus' = NoReply
    /\ UNCHANGED now

\* the caller has its reply and may call again
ConfirmReturn(p) ==
    /\ confirmer[p].pc = "done"
    /\ confirmer' = [confirmer EXCEPT ![p] = Resting]
    /\ lastStatus' = NoReply
    /\ UNCHANGED <<sessions, now>>

\* IsExpired without the test that the session is still Pending
IsExpiredAnyStatus(session, time) == time - session.createdAt > session.ttlSeconds

\* IsExpired measuring the age from time 0 instead of from createdAt
IsExpiredFromEpoch(session, time) ==
    session.status = "Pending" /\ time > session.ttlSeconds

\* the lazy expiry of the status read
IsExpired(session, time) ==
    session.status = "Pending" /\ time - session.createdAt > session.ttlSeconds

ExpireIfDue(session, time) ==
    IF IsExpired(session, time) THEN [session EXCEPT !.status = "Expired"] ELSE session

Reply(t, read) ==
    /\ sessions' = [sessions EXCEPT ![t] = read]
    /\ lastStatus' = [token |-> t, at |-> now, status |-> read.status, reason |-> read.reason]

GetSessionStatus(t) ==
    /\ IF sessions[t] = NoSession
       THEN /\ lastStatus' = [token |-> t, at |-> now, status |-> "SessionNotFoundError",
                              reason |-> null]
            /\ UNCHANGED sessions
       ELSE Reply(t, ExpireIfDue(sessions[t], now))
    /\ UNCHANGED <<now, confirmer>>

Tick ==
    /\ now < MaxTime
    /\ now' = now + 1
    /\ lastStatus' = NoReply
    /\ UNCHANGED <<sessions, confirmer>>

-----------------------------------------------------------------------------
(* The pure URL functions applied to inputs assembled from fragments.      *)

ParsePads == {"", " "}
ParsePrefixes ==
    {"", "http://", "https://", "HTTPS://", "Http://", "ftp://", "file:///",
     "javascript:", "mailto:", "http:", "https:/", "https:///"}
ParseHosts ==
    {"gov.pl", "WWW.GOV.PL", "ai.gov.pl", "xgov.pl", "gov.pl.", "gov.pl.example.com",
     "127.0.0.1", "10.1.2.3", "192.168.1.1", "0x7f.1", "1.2.3.4.5", "256.1.1.1",
     "a b", "host", "user@gov.pl", "a;b@c@host", "@", ""}
ParseTails == {"", "/", ":443", ":80/a", ":8080/a/../b", ":x", "/a b?q=1#f", "?q", ":65536"}

ParseInputs ==
    {a \o b \o c \o d \o a :
        a \in ParsePads, b \in ParsePrefixes, c \in ParseHosts, d \in ParseTails}

NotParsed == [ok |-> FALSE, error |-> ""]

ParseStep ==
    /\ pstage = "input"
    /\ pstage' = "parsed"
    /\ pout' = [value |-> IF trim(pin) = "" THEN "" ELSE NormalizedValue(pin),
                url |-> parseUrl(pin), valueAgain |-> "", again |-> NotParsed]
    /\ UNCHANGED pin

\* the href of the first result is normalized once more
ReparseStep ==
    /\ pstage = "parsed"
    /\ pout.url.ok
    /\ pstage' = "reparsed"
    /\ pout' = [pout EXCEPT !.valueAgain = NormalizedValue(pout.value),
                             !.again = parseUrl(pout.url.href)]
    /\ UNCHANGED pin

-----------------------------------------------------------------------------
(* Specifications.                                                         *)

scannerVars == <<qrScanner, qrScanning, qrSectionHidden, html5Qrcode, scanner, doomedStops>>
verifierVars ==
    <<trustedDomains, trustedLoaded, trustedLoadingError, call, resultsDiv, requests, latest,
      scannerVars>>
sessionVars == <<sessions, now, confirmer, lastStatus>>
parseVars == <<pin, pstage, pout>>
vars == <<trustedDomains, trustedLoaded, trustedLoadingError, call, resultsDiv, requests, latest,
          qrScanner, qrScanning, qrSectionHidden, html5Qrcode, scanner, doomedStops,
          sessions, now, confirmer, lastStatus, pin, pstage, pout>>

InitScanner ==
    /\ qrScanner = NoScanner
    /\ qrScanning = FALSE
    /\ qrSectionHidden = TRUE
    /\ scanner = [i \in Instances |-> NotCreated]
    /\ doomedStops = 0

InitVerifier ==
    /\ InitScanner
    /\ html5Qrcode = TRUE
    /\ latest = NoCall
    /\ trustedDomains = NullObject
    /\ trustedLoaded = FALSE
    /\ trustedLoadingError = NullObject
    /\ call = [c \in Calls |-> Idle]
    /\ resultsDiv = [kind |-> "message", text |-> ""]
    /\ requests = [c \in Calls |-> NoRequests]

InitSession ==
    /\ sessions = [t \in Tokens |-> NoSession]
    /\ now = 0
    /\ confirmer = [p \in Confirmers |-> Resting]
    /\ lastStatus = NoReply

Init ==
    /\ InitVerifier
    /\ InitSession
    /\ pin = "" /\ pstage = "input" /\ pout = [value |-> "", url |-> NotParsed, valueAgain |-> "", again |-> NotParsed]

\* the two handlers that call checkUrl; the decode callback is taken as it
\* runs with no scanner left in qrScanner (the scanner itself is in SpecQr)
Next ==
    \/ \E input \in CheckInputs : ClickHandler(input) /\ UNCHANGED <<sessionVars, parseVars>>
    \/ \E text \in QrTexts : DecodeCallback(text, FALSE) /\ UNCHANGED <<sessionVars, parseVars>>
    \/ \E c \in Calls, outcome \in LoadOutcomes :
            LoadSettle(c, outcome) /\ UNCHANGED <<scannerVars, sessionVars, parseVars>>
    \/ \E c \in Calls, outcome \in TlsOutcomes :
            TlsSettle(c, outcome) /\ UNCHANGED <<scannerVars, sessionVars, parseVars>>

Spec == Init /\ [][Next]_vars

NextSession ==
    \/ \E url \in SessionUrls : CreateSession(url) /\ UNCHANGED <<verifierVars, parseVars>>
    \/ \E p \in Confirmers, t \in Tokens, d \in Decisions : ConfirmBegin(p, t, d) /\ UNCHANGED <<verifierVars, parseVars>>
    \/ \E p \in Confirmers : ConfirmCas(p) /\ UNCHANGED <<verifierVars, parseVars>>
    \/ \E p \in Confirmers : ConfirmReturn(p) /\ UNCHANGED <<verifierVars, parseVars>>
    \/ \E t \in Tokens : GetSessionStatus(t) /\ UNCHANGED <<verifierVars, parseVars>>
    \/ Tick /\ UNCHANGED <<verifierVars, parseVars>>

SpecSession == Init /\ [][NextSession]_vars

\* the scanner, its buttons and the decode callback with the verification it starts
InitQr ==
    /\ InitScanner
    /\ html5Qrcode \in BOOLEAN
    /\ latest = NoCall
    /\ trustedDomains = NullObject /\ trustedLoaded = FALSE /\ trustedLoadingError = NullObject
    /\ call = [c \in Calls |-> Idle]
    /\ resultsDiv = [kind |-> "message", text |-> ""]
    /\ requests = [c \in Calls |-> NoRequests]
    /\ InitSession
    /\ pin = "" /\ pstage = "input" /\ pout = NotParsed

\* what the two requests of a verification yield in SpecQr: the list or a
\* rejected fetch, a rejected request or a valid certificate
QrLoadOutcomes ==
    {o \in LoadOutcomes : IF o.ok THEN Len(o.domains) = 1 ELSE o.message = "Failed to fetch"}
QrTlsOutcomes ==
    {o \in TlsOutcomes :
        o.rejects \/ (o.data # NullObject /\ o.data.ok = JsTrue /\ o.data.tls_ok = JsTrue)}

NextQr ==
    \/ StartQrScanner /\ UNCHANGED <<sessionVars, parseVars>>
    \/ \E i \in Instances, err \in StartErrors :
            \/ StartSettle(i, [ok |-> TRUE]) /\ UNCHANGED <<sessionVars, parseVars>>
            \/ StartSettle(i, [ok |-> FALSE, err |-> err]) /\ UNCHANGED <<sessionVars, parseVars>>
    \/ \E throws \in BOOLEAN : StopClick(throws) /\ UNCHANGED <<sessionVars, parseVars>>
    \/ \E i \in Instances, resolved \in BOOLEAN :
            StopSettle(i, resolved) /\ UNCHANGED <<sessionVars, parseVars>>
    \/ DoomedSettle /\ UNCHANGED <<sessionVars, parseVars>>
    \/ \E i \in Instances, text \in QrTexts : Decode(i, text) /\ UNCHANGED <<sessionVars, parseVars>>
    \/ \E c \in Calls, outcome \in QrLoadOutcomes :
            LoadSettle(c, outcome) /\ UNCHANGED <<scannerVars, sessionVars, parseVars>>
    \/ \E c \in Calls, outcome \in QrTlsOutcomes :
            TlsSettle(c, outcome) /\ UNCHANGED <<scannerVars, sessionVars, parseVars>>

SpecQr == InitQr /\ [][NextQr]_vars

InitParse ==
    /\ InitVerifier
    /\ InitSession
    /\ pin \in ParseInputs /\ pstage = "input" /\ pout = [value |-> "", url |-> NotParsed, valueAgain |-> "", again |-> NotParsed]

\* isGovPlDomain and isInTrustedDomains applied to host names assembled from
\* fragments; the set is what loadTrustedDomains builds from a list
ClassifyPrefixes == {"", "www.", "WWW.", "www.www.", "x", "ai.", "www.ai."}
ClassifyBases ==
    {"gov.pl", "GOV.PL", "Gov.Pl", "gov.pl.", "gov.pl.example.com", "example.com",
     "pl", ".gov.pl", "gov.pl.gov.pl", ""}
ClassifyHosts == {a \o b : a \in ClassifyPrefixes, b \in ClassifyBases}
ClassifyLists ==
    { <<"gov.pl", " AI.GOV.PL ", "">>, <<"example.com">>, <<"www.gov.pl", "pl">>, <<>> }

InitClassify ==
    /\ InitVerifier
    /\ InitSession
    /\ pin \in ClassifyHosts /\ pstage = "input" /\ pout = NotParsed

ZoneStep ==
    /\ pstage = "input"
    /\ pstage' = "zone"
    /\ pout' = [isGovPl |-> isGovPlDomain(pin)]
    /\ UNCHANGED pin

MemberStep(domains) ==
    /\ pstage = "input"
    /\ pstage' = "member"
    /\ pout' = [trustedSet |-> DomainSet(domains),
                isTrusted |-> isInTrustedDomains(pin, DomainSet(domains))]
    /\ UNCHANGED pin

NextClassify ==
    \/ ZoneStep /\ UNCHANGED <<verifierVars, sessionVars>>
    \/ \E domains \in ClassifyLists : MemberStep(domains) /\ UNCHANGED <<verifierVars, sessionVars>>

SpecClassify == InitClassify /\ [][NextClassify]_vars

NextParse ==
    \/ ParseStep /\ UNCHANGED <<verifierVars, sessionVars>>
    \/ ReparseStep /\ UNCHANGED <<verifierVars, sessionVars>>

SpecParse == InitParse /\ [][NextParse]_vars


-----------------------------------------------------------------------------
(* Properties of checkUrl and renderResult, under Spec.                    *)

\* the last n characters of s are t
HasSuffix(s, t) == Len(s) >= Len(t) /\ SubSeq(s, Len(s) - Len(t) + 1, Len(s)) = t

Returned(h) == call[h].pc = "returned"
ReturnedOk(h) == call[h].pc = "returned" /\ call[h].result.ok

\* C1 (as claimed): the positive summary is shown only when the zone line says
\* TAK, the backend TLS line says OK (backendTls === true) and the allow-list
\* line says TAK; in every other case the warning is shown.
C1_PositiveOnlyWhenAllThree ==
    /\ resultsDiv.kind = "result" /\ resultsDiv.summary = "summary-ok"
        => /\ resultsDiv.gov = "TAK"
           /\ resultsDiv.backendTlsLine.strong = "OK"
           /\ resultsDiv.trustedLine.strong = "TAK"
    /\ \A h \in Calls :
        ReturnedOk(h) =>
            (renderResult(call[h].result).summary = "summary-ok"
                <=> /\ call[h].result.isGovPl
                    /\ call[h].result.isTrusted = JsTrue
                    /\ call[h].result.backendTls = JsTrue)

\* C2: a call for which the allow-list could not be loaded returns ok:true
\* with isTrusted null and a trustedErrorMsg, and such a result is never
\* rendered with the positive summary, whatever its zone and TLS values.
C2_UnknownAllowListNeverTrusted ==
    /\ \A h \in Calls :
        Returned(h) /\ ParsedInputs[call[h].input].ok /\ call[h].loadFailed
            => /\ call[h].result.ok
               /\ call[h].result.isTrusted = null
               /\ call[h].result.trustedErrorMsg \notin {null, undefined, ""}
               /\ renderResult(call[h].result).summary = "summary-warn"
    /\ resultsDiv.kind = "result" /\ resultsDiv.trustedLine.strong = ""
        => resultsDiv.summary = "summary-warn"

\* the load failed for a gov.pl host whose certificate the backend found valid
C2_Witness ==
    \E h \in Calls :
        /\ ReturnedOk(h) /\ call[h].loadFailed
        /\ call[h].result.isGovPl /\ call[h].result.isTls
        /\ call[h].result.backendTls = JsTrue

\* the backend answered ok === true
AnsweredOk(outcome) ==
    ~outcome.rejects /\ outcome.data # NullObject /\ outcome.data.ok = JsTrue

\* C3: backendTls is true only for an answer with ok === true and
\* tls_ok === true, false only for ok === true and tls_ok not true, and null in
\* every other case (the request throws, the body is no JSON, the answer is
\* null or has ok !== true); whenever it is null, backendTlsError is not.
C3_BackendTlsTriState ==
    \A h \in Calls :
        ReturnedOk(h) =>
            /\ call[h].result.backendTls \in {JsTrue, JsFalse, null}
            /\ call[h].result.backendTls = JsTrue
                <=> AnsweredOk(call[h].tlsOutcome) /\ call[h].tlsOutcome.data.tls_ok = JsTrue
            /\ call[h].result.backendTls = JsFalse
                <=> AnsweredOk(call[h].tlsOutcome) /\ call[h].tlsOutcome.data.tls_ok # JsTrue
            /\ call[h].result.backendTls = null
                => call[h].result.backendTlsError \notin {null, undefined, ""}

\* an answer with tls_ok true but without ok === true was received
C3_Witness ==
    \E h \in Calls :
        /\ ReturnedOk(h)
        /\ ~call[h].tlsOutcome.rejects /\ call[h].tlsOutcome.data # NullObject
        /\ call[h].tlsOutcome.data.ok # JsTrue /\ call[h].tlsOutcome.data.tls_ok = JsTrue
        /\ call[h].result.backendTls = null

\* the inputs of Spec whose host is a literal IP address
IpLiteralInputs == {"http://192.168.1.1"}

\* C4 (as claimed): for an input whose host is a literal IP address checkUrl
\* fails in normalization, before any request is issued.
C4_IpLiteralBlockedBeforeRequests ==
    \A h \in Calls :
        call[h].pc # "idle" /\ call[h].input \in IpLiteralInputs
            => /\ Returned(h) /\ ~call[h].result.ok
               /\ requests[h] = NoRequests

\* C4 (amended): parseUrl accepts a literal IP host; checkUrl issues its
\* requests for it and returns ok:true with the address as domain, outside the
\* gov.pl zone, so its summary is the warning.
C4_IpLiteralVerifiedNotTrusted ==
    \A h \in Calls :
        call[h].pc # "idle" /\ call[h].input \in IpLiteralInputs
            => /\ call[h].pc = "loading" => requests[h].allowList = 1
               /\ call[h].pc = "tls" => requests[h].tls = 1
               /\ Returned(h)
                    => /\ call[h].result.ok
                       /\ requests[h].tls = 1
                       /\ call[h].result.domain = "192.168.1.1"
                       /\ ~call[h].result.isGovPl
                       /\ renderResult(call[h].result).summary = "summary-warn"

\* a literal IP input came back ok:true after a request to /api/check-tls
C4_Witness ==
    \E h \in Calls :
        /\ ReturnedOk(h) /\ call[h].input \in IpLiteralInputs
        /\ requests[h].tls = 1 /\ call[h].result.isTrusted = JsFalse

\* the inputs of Spec with an explicit scheme other than http and https
OtherSchemeInputs == {"ftp://host", "mailto:user@gov.pl", "javascript:alert(1)"}

\* the authority of "https://" followed by the input: the input up to its
\* first / ? or #; and the host named in an authority: what follows its last
\* "@", up to the first colon there, lowercased
AuthorityOf(input) == SubSeq(trim(input), 1, FirstOf(trim(input), "/?#") - 1)
AfterLastAt(auth) ==
    IF \E i \in 1..Len(auth) : Ch(auth, i) = "@" /\ \A j \in (i + 1)..Len(auth) : Ch(auth, j) # "@"
    THEN From(auth, 1 + CHOOSE i \in 1..Len(auth) :
                        Ch(auth, i) = "@" /\ \A j \in (i + 1)..Len(auth) : Ch(auth, j) # "@")
    ELSE auth
HostNamedIn(auth) ==
    toLowerCase(SubSeq(AfterLastAt(auth), 1, FirstOf(AfterLastAt(auth), ":") - 1))

\* C9 (as claimed): an input with an explicit scheme other than http and https
\* is rejected; it never yields an ok:true result.
C9_OtherSchemeRejected ==
    \A h \in Calls :
        Returned(h) /\ call[h].input \in OtherSchemeInputs => ~call[h].result.ok

\* C9 (amended): such an input is not rejected for its scheme: https:// is
\* prepended, so the scheme name and what follows it are read as the
\* authority of an https URL.  When that URL parses the result is ok:true
\* with isTls true and the host of that authority as domain: the scheme name
\* itself (ftp://host gives "ftp"), or, when an "@" follows, what stands after
\* the "@" (mailto:user@gov.pl gives "gov.pl", inside the gov.pl zone).  When
\* it does not parse (javascript:alert(1)) the result is ok:false with the URL
\* parser's message, before any request.
C9_OtherSchemeBecomesAuthority ==
    \A h \in Calls :
        Returned(h) /\ call[h].input \in OtherSchemeInputs
            => /\ call[h].result.ok
                    => /\ call[h].result.isTls
                       /\ call[h].result.domain = HostNamedIn(AuthorityOf(call[h].input))
                       /\ call[h].result.isGovPl
                            <=> \/ call[h].result.domain = "gov.pl"
                                \/ HasSuffix(call[h].result.domain, ".gov.pl")
               /\ ~call[h].result.ok
                    => /\ call[h].result.error = InvalidUrlMessage
                       /\ requests[h] = NoRequests
               /\ call[h].input = "ftp://host"
                    => call[h].result.ok /\ call[h].result.domain = "ftp"
               /\ call[h].input = "mailto:user@gov.pl"
                    => /\ call[h].result.ok
                       /\ call[h].result.domain = "gov.pl" /\ call[h].result.isGovPl
               /\ call[h].input = "javascript:alert(1)" => ~call[h].result.ok

\* ftp://host came back as an ok:true result for the host "ftp", and
\* mailto:user@gov.pl as one for the host gov.pl
C9_Witness ==
    \E c, d \in Calls :
        /\ ReturnedOk(c) /\ call[c].input = "ftp://host"
        /\ call[c].result.domain = "ftp" /\ call[c].result.isTls
        /\ ReturnedOk(d) /\ call[d].input = "mailto:user@gov.pl"
        /\ call[d].result.domain = "gov.pl" /\ call[d].result.isGovPl
        /\ call[d].result.isTls

\* the inputs of Spec that are empty or blank, and those new URL rejects
BlankInputs == {"", "   "}
MalformedInputs == {"a b", "javascript:alert(1)"}

\* C10: for an empty or blank input, and for one that fails URL parsing,
\* checkUrl returns {ok: false, error} and the call issues neither the
\* allow-list request nor the TLS request.
C10_BadInputReturnsErrorWithoutRequests ==
    \A h \in Calls :
        call[h].pc # "idle" /\ call[h].input \in BlankInputs \cup MalformedInputs
            => /\ Returned(h)
               /\ ~call[h].result.ok
               /\ call[h].result.error \notin {null, undefined, ""}
               /\ requests[h] = NoRequests

\* a blank and a malformed input have both come back as errors
C10_Witness ==
    \E c, d \in Calls :
        /\ Returned(c) /\ call[c].handler = "click"
        /\ call[c].input = "   " /\ ~call[c].result.ok
        /\ Returned(d) /\ call[d].handler = "qr"
        /\ call[d].input = "a b" /\ ~call[d].result.ok

-----------------------------------------------------------------------------
(* Properties of parseUrl, under SpecParse.                                *)

\* the string starts with http:// or https://, in any letter case
StartsWithHttpScheme(t) ==
    \/ Len(t) >= 7 /\ toLowerCase(SubSeq(t, 1, 7)) = "http://"
    \/ Len(t) >= 8 /\ toLowerCase(SubSeq(t, 1, 8)) = "https://"

\* C8: the string parseUrl hands to the URL parser is the trimmed input when
\* that starts with http:// or https:// in any letter case, and "https://"
\* followed by the trimmed input otherwise; normalizing that string again
\* leaves it as it is, and parsing the href of the resulting URL again yields
\* the same URL; the input gov.pl yields the URL https://gov.pl.
C8_PrependsHttpsOnceAndIsIdempotent ==
    pstage # "input" /\ trim(pin) # ""
        => /\ StartsWithHttpScheme(trim(pin)) => pout.value = trim(pin)
           /\ ~StartsWithHttpScheme(trim(pin)) => pout.value = "https://" \o trim(pin)
           /\ pstage = "reparsed"
                => /\ pout.valueAgain = pout.value
                   /\ pout.again = pout.url
           /\ trim(pin) = "gov.pl"
                => /\ pout.value = "https://gov.pl"
                   /\ pout.url.ok
                   /\ pout.url.protocol = "https:"
                   /\ pout.url.hostname = "gov.pl"
                   /\ pout.url.href = "https://gov.pl/"

\* a padded gov.pl and an upper-case scheme have been normalized twice
C8_Witness ==
    /\ pstage = "reparsed"
    /\ \/ pin = " gov.pl " /\ pout.again.href = "https://gov.pl/"
       \/ pin = "HTTPS://WWW.GOV.PL:443" /\ pout.value = pin
            /\ pout.again.href = "https://www.gov.pl/"

-----------------------------------------------------------------------------
(* Properties of the session engine, under SpecSession.                    *)

\* the call of p has just been answered for a session that was already terminal
RefusedAsFinalized(p) ==
    /\ confirmer'[p].pc = "done"
    /\ confirmer'[p].outcome = "SessionAlreadyFinalizedError"
    /\ sessions'[confirmer'[p].token] = sessions[confirmer'[p].token]

\* C5: a session that is Confirmed, Rejected or Expired is never changed by
\* any step, and a confirmSession that starts on such a session is refused
\* with SessionAlreadyFinalizedError, status and reason staying as they are.
C5_TerminalStatusIsFinal ==
    [][/\ \A t \in Tokens :
            sessions[t].status \in Terminal => sessions'[t] = sessions[t]
       /\ \A p \in Confirmers :
            /\ confirmer[p].pc = "idle" /\ confirmer'[p].pc # "idle"
            /\ sessions[confirmer'[p].token].status \in Terminal
            => RefusedAsFinalized(p)]_vars

\* a Confirmed session was read after its time to live had passed, and a
\* later confirmSession on it was refused
C5_Witness ==
    \E p \in Confirmers :
        /\ confirmer[p].pc = "done" /\ ~confirmer[p].raced
        /\ confirmer[p].outcome = "SessionAlreadyFinalizedError"
        /\ confirmer[p].decision = "Rejected"
        /\ sessions[confirmer[p].token].status = "Confirmed"
        /\ lastStatus # NoReply /\ lastStatus.token = confirmer[p].token
        /\ lastStatus.status = "Confirmed"
        /\ lastStatus.at > sessions[lastStatus.token].createdAt + TtlSeconds

\* both calls found the same session Pending, with conflicting decisions, and
\* both have finished
RacedOn(t, p, q) ==
    /\ p # q
    /\ confirmer[p].pc = "done" /\ confirmer[q].pc = "done"
    /\ confirmer[p].token = t /\ confirmer[q].token = t
    /\ confirmer[p].raced /\ confirmer[q].raced
    /\ confirmer[p].decision # confirmer[q].decision

\* C6 (as claimed): of two confirmSession calls with conflicting decisions
\* that both found the same token Pending, in every interleaving exactly one
\* succeeds and the other gets SessionAlreadyFinalizedError, and the status and
\* reason of the session are those of the call that succeeded.
C6_ExactlyOneConfirmWins ==
    \A t \in Tokens : \A p, q \in Confirmers :
        RacedOn(t, p, q)
            => /\ {confirmer[p].outcome, confirmer[q].outcome}
                    = {"ok", "SessionAlreadyFinalizedError"}
               /\ confirmer[p].outcome = "ok"
                    => /\ sessions[t].status = confirmer[p].decision
                       /\ sessions[t].reason = ReasonOf(p)

\* C6 (amended): of two such calls at most one succeeds and each of the others
\* gets SessionAlreadyFinalizedError; when one succeeds the status and reason
\* of the session are its own; none succeeds exactly when a status read
\* expired the session between their checks and their compare-and-sets, and
\* the session is then Expired.
C6_OneTerminalTransitionWins ==
    \A t \in Tokens : \A p, q \in Confirmers :
        RacedOn(t, p, q)
            => /\ {confirmer[p].outcome, confirmer[q].outcome}
                    \in {{"ok", "SessionAlreadyFinalizedError"}, {"SessionAlreadyFinalizedError"}}
               /\ confirmer[p].outcome = "ok"
                    => /\ sessions[t].status = confirmer[p].decision
                       /\ sessions[t].reason = ReasonOf(p)
               /\ confirmer[p].outcome = confirmer[q].outcome
                    <=> sessions[t].status = "Expired"

\* the two callers raced and the one that rejected won
C6_Witness ==
    \E t \in Tokens :
        /\ RacedOn(t, "app", "other")
        /\ confirmer["app"].outcome = "SessionAlreadyFinalizedError"
        /\ confirmer["other"].outcome = "ok" /\ confirmer["other"].decision = "Rejected"
        /\ sessions[t].status = "Rejected"

\* the instant at which the session of token t reaches its time to live
Deadline(t) == sessions[t].createdAt + sessions[t].ttlSeconds

\* the status read just answered for an issued session nobody confirmed or rejected
ReadUndecided ==
    /\ lastStatus # NoReply
    /\ sessions[lastStatus.token] # NoSession
    /\ lastStatus.status \notin Decisions

\* C7: for a session nobody confirmed or rejected, getSessionStatus answers
\* Pending at every time before createdAt + ttlSeconds and Expired at every
\* time after it, and a session goes from Pending to Expired only in the step
\* of a status read of its token, never in a step of the clock.
C7_LazyExpiryAtRead ==
    /\ [](ReadUndecided
            => /\ lastStatus.at < Deadline(lastStatus.token) => lastStatus.status = "Pending"
               /\ lastStatus.at > Deadline(lastStatus.token) => lastStatus.status = "Expired")
    /\ [][\A t \in Tokens :
            sessions[t].status = "Pending" /\ sessions'[t].status = "Expired"
                => /\ lastStatus' # NoReply /\ lastStatus'.token = t
                   /\ now' = now /\ now > Deadline(t)]_vars

\* a session created after time 0 was read one tick past its deadline and expired
C7_Witness ==
    /\ lastStatus # NoReply /\ sessions[lastStatus.token] # NoSession
    /\ lastStatus.status = "Expired"
    /\ sessions[lastStatus.token].createdAt > 0
    /\ lastStatus.at = Deadline(lastStatus.token) + 1

-----------------------------------------------------------------------------
(* Properties of isGovPlDomain and isInTrustedDomains, under SpecClassify. *)


\* C11: isGovPlDomain(host) is true exactly when the lowercased host is
\* "gov.pl" or ends with ".gov.pl": xgov.pl, gov.pl.example.com and gov.pl.
\* are outside the zone, and GOV.PL and Gov.Pl are in it as gov.pl is.
C11_ZoneIsExactSuffix ==
    pstage = "zone"
        => /\ pout.isGovPl
                <=> \/ toLowerCase(pin) = "gov.pl"
                    \/ HasSuffix(toLowerCase(pin), ".gov.pl")
           /\ pin \in {"xgov.pl", "gov.pl.example.com", "gov.pl.", "pl", "example.com",
                       "xGOV.PL", "www.gov.pl."}
                => ~pout.isGovPl
           /\ pin \in {"gov.pl", "GOV.PL", "Gov.Pl", "ai.gov.pl", "WWW.GOV.PL",
                       "ai.Gov.Pl", ".gov.pl", "www.ai.gov.pl"}
                => pout.isGovPl

\* an upper-case subdomain of the zone has been classified as inside it
C11_Witness == pstage = "zone" /\ pin = "WWW.GOV.PL" /\ pout.isGovPl

\* C12: isInTrustedDomains(host, set) is true exactly when the lowercased host,
\* or the lowercased host without one leading "www.", is an element of the
\* set; a subdomain, a parent domain, a second "www." or a "www." found only
\* in the set does not make a member.
C12_AllowListIsExactMembership ==
    pstage = "member"
        => /\ pout.isTrusted
                <=> \/ toLowerCase(pin) \in pout.trustedSet
                    \/ /\ Len(pin) >= 4
                       /\ toLowerCase(SubSeq(pin, 1, 4)) = "www."
                       /\ toLowerCase(SubSeq(pin, 5, Len(pin))) \in pout.trustedSet
           /\ pout.trustedSet = {"gov.pl", "ai.gov.pl"}
                => /\ pin \in {"gov.pl", "WWW.GOV.PL", "ai.Gov.Pl", "www.ai.gov.pl"}
                        => pout.isTrusted
                   /\ pin \in {"www.www.gov.pl", "xgov.pl", "x.gov.pl", "gov.pl.",
                               "gov.pl.gov.pl", "pl", "www.pl", ""}
                        => ~pout.isTrusted
           /\ pout.trustedSet = {"www.gov.pl", "pl"}
                => /\ pin \in {"www.gov.pl", "www.www.gov.pl", "pl", "WWW.pl"} => pout.isTrusted
                   /\ pin \in {"gov.pl", "ai.gov.pl", "x.gov.pl"} => ~pout.isTrusted
           /\ pout.trustedSet = {} => ~pout.isTrusted

\* a host with two leading "www." was looked up in a set that holds the bare domain
C12_Witness ==
    /\ pstage = "member" /\ pin = "www.www.gov.pl"
    /\ pout.trustedSet = {"gov.pl", "ai.gov.pl"} /\ ~pout.isTrusted

-----------------------------------------------------------------------------
(* Further properties of checkUrl and the two handlers, under Spec.        *)

\* the backend answered with an error object
RefusedByBackend(outcome) ==
    ~outcome.rejects /\ outcome.data # NullObject /\ outcome.data.ok = JsFalse

\* C13: for an input parseUrl accepts, whatever the request to /api/check-tls
\* does (it rejects, it answers null, an error object, tls_ok false), checkUrl
\* returns an ok:true result with domain, isGovPl, isTls and isTrusted, and
\* the failure is in backendTls and backendTlsError.
C13_TlsFailuresAreResults ==
    \A h \in Calls :
        Returned(h) /\ ParsedInputs[call[h].input].ok
            => /\ call[h].result.ok
               /\ call[h].result.domain = ParsedInputs[call[h].input].hostname
               /\ call[h].result.isGovPl \in BOOLEAN
               /\ call[h].result.isTls \in BOOLEAN
               /\ call[h].result.isTrusted \in {JsTrue, JsFalse, null}
               /\ call[h].tlsOutcome.rejects
                    => /\ call[h].result.backendTls = null
                       /\ call[h].result.backendTlsError = call[h].tlsOutcome.message
               /\ ~call[h].tlsOutcome.rejects /\ call[h].tlsOutcome.data = NullObject
                    => /\ call[h].result.backendTls = null
                       /\ call[h].result.backendTlsError = TlsInvalidMessage
               /\ RefusedByBackend(call[h].tlsOutcome)
                    => /\ call[h].result.backendTls = null
                       /\ call[h].result.backendTlsError = call[h].tlsOutcome.data.error
               /\ AnsweredOk(call[h].tlsOutcome) /\ call[h].tlsOutcome.data.tls_ok = JsFalse
                    => /\ call[h].result.backendTls = JsFalse
                       /\ call[h].result.backendTlsError = null

\* the request to /api/check-tls was rejected for one call and refused by the
\* backend for the other, and both calls returned results
C13_Witness ==
    \E c, d \in Calls :
        /\ ReturnedOk(c) /\ call[c].tlsOutcome.rejects
        /\ call[c].result.backendTlsError = "Failed to fetch"
        /\ ReturnedOk(d) /\ ~call[d].tlsOutcome.rejects
        /\ call[d].result.backendTlsError = "IP addresses are not allowed"

\* the number of requests for domains.json issued by the invocations on record
RECURSIVE FetchesUpTo(_)
FetchesUpTo(n) == IF n = 0 THEN 0 ELSE requests[n].allowList + FetchesUpTo(n - 1)
AllowListFetches == FetchesUpTo(MaxCalls)

\* C14 (as claimed): under every interleaving of the two handlers domains.json
\* is fetched at most once, and once trustedDomains holds a set it is never
\* assigned again.
C14_AllowListLoadedOnce ==
    /\ [](AllowListFetches <= 1)
    /\ [][trustedDomains # NullObject => trustedDomains' = trustedDomains]_vars

\* C15 (as claimed): once a load of domains.json has failed, every call that
\* returns afterwards, a call in flight at the failure included, returns
\* isTrusted null, and trustedLoadingError is never set while trustedLoaded is
\* true.
C15_LoadFailureReachesEveryCall ==
    /\ [](~(trustedLoadingError # NullObject /\ trustedLoaded))
    /\ [][\A h \in Calls :
            /\ trustedLoadingError # NullObject
            /\ call[h].pc = "tls" /\ call'[h].pc = "returned"
            => call'[h].result.isTrusted = null]_vars

\* the fixed texts the program itself chooses for a failure: the fallbacks of
\* lines 103, 117, 120 and 136 and the text of line 51
FixedMessages ==
    {"", EmptyUrlMessage, UrlFallbackMessage, TrustedFallbackMessage,
     TlsInvalidMessage, TlsFallbackMessage}

\* the error texts the backend puts into its answer: data, not an exception
BackendErrorTexts == {"IP addresses are not allowed"}

\* C16 (as claimed): whatever fails inside checkUrl (parseUrl throws, the
\* allow-list load throws, the TLS request throws), the text shown in the
\* results area is one of the program's fixed messages, never the message of
\* the exception that was caught.
C16_NoRawExceptionText ==
    /\ resultsDiv.kind = "error" => resultsDiv.text \in FixedMessages
    /\ resultsDiv.kind = "result"
        => /\ resultsDiv.trustedLine.text \in FixedMessages
           /\ resultsDiv.backendTlsLine.text \in FixedMessages \cup BackendErrorTexts

\* two invocations that are over were given the same text and, where checkUrl
\* got that far, the same allow-list state and the same backend answer
SameCheckOf(x, y) ==
    /\ x.pc = "returned" /\ y.pc = "returned"
    /\ x.input = y.input
    /\ x.result.ok /\ y.result.ok
        => /\ x.ensured = y.ensured
           /\ x.tlsOutcome = y.tlsOutcome
SameCheck(c, d) == SameCheckOf(call[c], call[d])

\* C17: for the same text, the same allow-list state and the same answer of
\* the backend, the decode callback and the click listener get the same
\* result from checkUrl, and what the one that returns later renders is what
\* renderResult makes of the other's result.
C17_QrAndClickSamePath ==
    /\ [](\A c, d \in Calls :
            SameCheck(c, d) /\ call[c].handler # call[d].handler
                => call[c].result = call[d].result)
    /\ [][\A c, d \in Calls :
            /\ c # d /\ call'[d] # call[d]
            /\ SameCheckOf(call[c], call'[d])
            /\ call[c].handler # call'[d].handler
            => resultsDiv' = renderResult(call[c].result)]_vars

\* both handlers checked gov.pl against the same loaded list with
\* the same backend answer and found it trusted
C17_Witness ==
    \E c, d \in Calls :
        /\ SameCheck(c, d)
        /\ call[c].handler = "click" /\ call[d].handler = "qr"
        /\ call[d].input = "gov.pl"
        /\ call[d].result.ok /\ call[c].result.ok
        /\ call[d].ensured.ok
        /\ call[d].result.isTrusted = JsTrue
        /\ call[d].result.backendTls = JsTrue

\* the five verdict fields of a result
VerdictOf(result) ==
    <<result.domain, result.isGovPl, result.isTls, result.isTrusted, result.backendTls>>

\* the verdict as a function of the URL, of what ensureTrustedLoaded gave the
\* call and of the outcome of the TLS request
Classify(urlObj, ensured, outcome) ==
    <<toLowerCase(urlObj.hostname),
      isGovPlDomain(toLowerCase(urlObj.hostname)),
      isTls(urlObj),
      IF ~ensured.ok THEN null
      ELSE IF isInTrustedDomains(toLowerCase(urlObj.hostname), ensured.set)
      THEN JsTrue ELSE JsFalse,
      TlsVerdict(outcome).backendTls>>

\* C18: domain, isGovPl, isTls, isTrusted and backendTls of a result are a
\* function of the normalized URL, the trusted-domain set the call was given
\* and the TLS outcome; two calls with the same three get the same five,
\* whatever ran before and whatever trustedDomains holds by then.
C18_VerdictIsDeterministic ==
    /\ \A h \in Calls :
        ReturnedOk(h)
            => VerdictOf(call[h].result)
                    = Classify(call[h].urlObj, call[h].ensured, call[h].tlsOutcome)
    /\ \A h, g \in Calls :
        /\ ReturnedOk(h) /\ ReturnedOk(g)
        /\ call[h].urlObj.href = call[g].urlObj.href
        /\ call[h].ensured = call[g].ensured
        /\ call[h].tlsOutcome = call[g].tlsOutcome
        => VerdictOf(call[h].result) = VerdictOf(call[g].result)

\* a call returned gov.pl as trusted from the set it was given, while
\* trustedDomains had meanwhile been replaced by a set without gov.pl
C18_Witness ==
    \E h \in Calls :
        /\ ReturnedOk(h) /\ call[h].ensured.ok
        /\ call[h].result.domain = "gov.pl"
        /\ call[h].result.isTrusted = JsTrue
        /\ trustedLoaded /\ "gov.pl" \notin trustedDomains.set

\* C20 (as claimed): when verifications overlap, the one that returns and
\* renders last, with no other left in flight, is the one that was
\* requested last: the results area ends with the latest request's result.
C20_LatestRequestIsShown ==
    [][\A c \in Calls :
        /\ call[c].pc = "tls" /\ call'[c].pc = "returned"
        /\ \A d \in Calls \ {c} : call[d].pc \notin InFlight
        => latest = c]_vars

-----------------------------------------------------------------------------
(* Properties of the QR scanner, under SpecQr.                             *)

\* the instances that were started and have neither stopped nor failed
AliveScanners == {i \in Instances : scanner[i].state \in Alive}

\* C19 (as claimed): under every interleaving of startQrScanner and
\* stopQrScanner with the start() and stop() promises, at most one Html5Qrcode
\* instance is starting or running: startQrScanner creates none while an
\* earlier one is.
C19_AtMostOneScanner == Cardinality(AliveScanners) <= 1

\* a start() or stop() promise has not settled yet
PromisePending ==
    \/ \E i \in Instances : scanner[i].state = "starting" \/ scanner[i].stopping
    \/ doomedStops > 0

\* C21 (as claimed): once stopQrScanner has been called (the section is
\* hidden since) and every start() and stop() promise has settled,
\* qrScanning is false: no settled state keeps the flag after a stop.
C21_StopLeavesIdle == qrSectionHidden /\ ~PromisePending => ~qrScanning

=============================================================================
